---- MODULE Spec2Model ----
(***************************************************************************)
(* Model of the ingestion pipeline (services/data-tunnel) and of the query *)
(* orchestrator (services/orchestrator).                                   *)
(*                                                                         *)
(* Ingestion: the state store tables, the object store, the search index,  *)
(* the Celery broker and the worker tasks, one action per database         *)
(* transaction or external call of each task, so that duplicate and        *)
(* concurrent deliveries interleave as they do on the real workers.        *)
(***************************************************************************)
EXTENDS Integers, FiniteSets, Sequences, Bags, TLC

(***************************************************************************)
(* Bounds of the model.                                                    *)
(***************************************************************************)
MaxIngests == 2
MaxEvents == 2
MaxQueries == 2
ChunksPerDoc == 1

Ingests == 1..MaxIngests

(* Two worker processes consume the broker's queue. *)
Workers == {1, 2}

(***************************************************************************)
(* pipeline/models.py: IngestionStatus                                     *)
(***************************************************************************)
IngestionStatus == {"QUEUED", "PROCESSING", "COMPLETED", "FAILED"}
Terminal == {"COMPLETED", "FAILED"}

(* The five stage names used by the worker tasks, in chain order. *)
StageSeq == <<"parse_normalize", "pii_dq", "enrich", "chunk_embed", "index_publish">>
Stages == {StageSeq[k] : k \in 1..Len(StageSeq)}
StageIndex(s) == CHOOSE k \in 1..Len(StageSeq) : StageSeq[k] = s
Predecessors(s) == {StageSeq[k] : k \in 1..(StageIndex(s) - 1)}

(* Tenants that upload documents, and the tenant_id values a reindex or      *)
(* delete request may carry ("none": the parameter is absent).              *)
Tenants == {"tenant-a"}
RequestTenants == Tenants \cup {"tenant-b", "none"}

(***************************************************************************)
(* A document profile: what the PII analyzer and the DQ checks find in the *)
(* extracted text, and the options resolved at upload                      *)
(* (DEFAULT_OPTIONS merged with the request's options).                    *)
(***************************************************************************)
Profiles ==
    { [pii |-> FALSE, action |-> "redact", fail_on_pii |-> FALSE, dq_ok |-> TRUE,  continue_on_warn |-> TRUE],
      [pii |-> TRUE,  action |-> "redact", fail_on_pii |-> FALSE, dq_ok |-> TRUE,  continue_on_warn |-> TRUE],
      [pii |-> TRUE,  action |-> "redact", fail_on_pii |-> TRUE,  dq_ok |-> TRUE,  continue_on_warn |-> TRUE],
      [pii |-> TRUE,  action |-> "reject", fail_on_pii |-> FALSE, dq_ok |-> TRUE,  continue_on_warn |-> TRUE],
      [pii |-> FALSE, action |-> "redact", fail_on_pii |-> FALSE, dq_ok |-> FALSE, continue_on_warn |-> TRUE],
      [pii |-> FALSE, action |-> "redact", fail_on_pii |-> FALSE, dq_ok |-> FALSE, continue_on_warn |-> FALSE] }

(***************************************************************************)
(* The environments explored: one ingest disturbed by up to MaxEvents       *)
(* events, or MaxIngests concurrent ingests left undisturbed.               *)
(***************************************************************************)
Environments ==
    { [uploads |-> 1, events |-> MaxEvents],
      [uploads |-> MaxIngests, events |-> 0] }

NoRow == [status |-> "none"]
NoCanon == [text |-> "", at |-> 0, chunks |-> {}]
Idle == [pc |-> "idle"]

VARIABLES
    manifests,      \* manifests table: ingest_id -> row or NoRow
    ingestions,     \* ingestions table: ingest_id -> row or NoRow
    lineage_nodes,  \* lineage_nodes table: number of rows per (ingest_id, stage)
    chunks,         \* chunks table: set of rows
    vectors,        \* vectors table: set of rows (chunk_id unique)
    dq_reports,     \* dq_reports table: number of rows per ingest_id
    objects,        \* object store: set of <<key, content>>
    os_index,       \* search index documents
    queue,          \* broker: bag of task messages
    workers,        \* per worker: the task in flight and its position
    log,            \* last dependency error seen by a task: [ingest, stage, err]
    clock,          \* datetime.utcnow() as a logical clock
    created,        \* ingest ids already issued by uuid4
    budget,         \* what the environment may still do: uploads, and events
                    \* (redeliveries, reindexes, deletes, dependency faults)
    marked          \* every (ingest_id, stage) mark_stage_complete ever recorded

ivars == <<manifests, ingestions, lineage_nodes, chunks, vectors, dq_reports,
           objects, os_index, queue, workers, log, clock, created, budget, marked>>

VARIABLES
    query,          \* the query handle_query is serving and its position
    retrieved,      \* what hybrid_search returned for it, or that it raised
    response,       \* the AssistantResponse returned for it
    risk_cache,     \* risk._CACHE: the signatures stored
    simulated,      \* the riskSpecs (as dicts) the simulator has answered
    sim_calls,      \* number of calls to risk.run
    rag_calls,      \* number of calls to hybrid_search
    turns           \* the thread's memory: the assistant texts appended

qvars == <<query, retrieved, response, risk_cache, simulated, sim_calls, rag_calls, turns>>

VARIABLES
    planner,        \* one call of planner.plan: its inputs and the Plan returned
    _turns,         \* MemoryStore._turns: per thread, the deque of MemoryTurn
    _turn_counters, \* MemoryStore._turn_counters
    appended,       \* per thread, every turn ever passed to append_turn
    window,         \* the last call of get_recent_window and what it returned
    mem_env,        \* the texts the users send and how many turns they append
    callers,        \* concurrent calls into the MemoryStore and their positions
    _locks,         \* MemoryStore._locks: per thread, the Lock stored (0: none)
    held            \* the Lock objects that are held

lvars == <<callers, _locks, held>>

VARIABLES
    retriever,      \* one call of HybridRetriever.retrieve
    chunker,        \* one call of semantic_chunks and its loop position
    webhook         \* the webhook's manifests, its queue and its handlers

uvars == <<retriever, chunker, webhook>>

xvars == <<planner, _turns, _turn_counters, appended, window, mem_env, lvars, uvars>>

vars == <<ivars, qvars, xvars>>

----
(***************************************************************************)
(* pipeline/lineage.py                                                     *)
(***************************************************************************)

(* update_status: INSERT ... ON CONFLICT (ingest_id) DO UPDATE.  The update *)
(* sets status, stage, error, dlq_reason; started_at and finished_at only   *)
(* when given; tenant_id only on insert.                                    *)
update_status(tbl, i, t, status, stage, dlq, started, finished) ==
    IF tbl[i] = NoRow
    THEN [tbl EXCEPT ![i] = [status |-> status, stage |-> stage, dlq_reason |-> dlq,
                             tenant_id |-> t, started_at |-> started, finished_at |-> finished]]
    ELSE [tbl EXCEPT ![i] = [status |-> status, stage |-> stage, dlq_reason |-> dlq,
                             tenant_id |-> tbl[i].tenant_id,
                             started_at |-> (started \/ tbl[i].started_at),
                             finished_at |-> (finished \/ tbl[i].finished_at)]]

transition_processing(tbl, i, t, stage) ==
    update_status(tbl, i, t, "PROCESSING", stage, "", TRUE, FALSE)

transition_completed(tbl, i, t) ==
    update_status(tbl, i, t, "COMPLETED", "index_publish", "", FALSE, TRUE)

transition_failed(tbl, i, t, stage, reason) ==
    update_status(tbl, i, t, "FAILED", stage, reason, FALSE, TRUE)

stage_completed(i, stage) == lineage_nodes[i][stage] > 0

----
(***************************************************************************)
(* pipeline/storage.py: stable keys under {tenant}/landing/{ingest}/variant *)
(***************************************************************************)
ObjectKey(t, i, variant) == <<t, i, variant>>

PutObject(store, key, content) ==
    {o \in store : o[1] # key} \cup {<<key, content>>}

delete_ingest_objects(store, t, i) ==
    {o \in store : ~(o[1][1] = t /\ o[1][2] = i)}

----
(***************************************************************************)
(* Task messages.  canonical travels in the message arguments.             *)
(***************************************************************************)
Msg(task, i, canonical) == [task |-> task, ingest_id |-> i, canonical |-> canonical]

Enqueue(q, m) == q (+) SetToBag({m})

(***************************************************************************)
(* orchestrator: nothing asked yet, an empty risk cache, an empty thread.  *)
(***************************************************************************)
NoRequest == [needRag |-> FALSE, needRisk |-> FALSE, riskSpec |-> <<>>,
              force_rag |-> FALSE, fresh |-> FALSE]
NoRisk == [attempted |-> FALSE, used |-> FALSE, cache_hit |-> "absent", error |-> ""]
NoQuery == [pc |-> "idle", req |-> NoRequest, known |-> FALSE, pack |-> <<>>, risk |-> NoRisk]
NoRetrieval == [called |-> FALSE, error |-> FALSE, hits |-> <<>>]
NoResponse == [route |-> "none", text |-> "", citations |-> 0, rag_failure |-> "",
               rag_used |-> FALSE, risk |-> NoRisk, meta_risk_error |-> ""]

NoPlan == [needRag |-> FALSE, needRisk |-> FALSE]
NoReply == [kind |-> "none", needRag |-> FALSE, needRisk |-> FALSE]

Threads == {"thread-1", "thread-2"}
NoWindow == [called |-> FALSE, thread_id |-> "", token_cap |-> 0, blocks |-> <<>>]

PlannerIdle ==
    planner = [pc |-> "idle", user_msg |-> <<>>, reply |-> NoReply, plan |-> NoPlan]

MemoryEmpty ==
    /\ _turns = [t \in Threads |-> <<>>]
    /\ _turn_counters = [t \in Threads |-> 0]
    /\ appended = [t \in Threads |-> <<>>]
    /\ window = NoWindow

MaxCallers == 3
Callers == 1..MaxCallers
NoCall == [op |-> "none", pc |-> "done", thread_id |-> "", lock |-> 0, seen_len |-> 0, seen |-> 0]

LocksIdle ==
    /\ callers = [c \in Callers |-> NoCall]
    /\ _locks = [t \in Threads |-> 0]
    /\ held = {}

MemoryIdle ==
    /\ MemoryEmpty
    /\ LocksIdle
    /\ mem_env = [users |-> {}, assistants |-> {}, appends |-> 0]

NoUnit == [pc |-> "idle"]

RetrieverIdle == retriever = NoUnit
ChunkerIdle == chunker = NoUnit
WebhookIdle == webhook = NoUnit

UnitIdle ==
    /\ PlannerIdle
    /\ MemoryIdle
    /\ RetrieverIdle
    /\ ChunkerIdle
    /\ WebhookIdle

QueryIdle ==
    /\ query = NoQuery
    /\ retrieved = NoRetrieval
    /\ response = NoResponse
    /\ risk_cache = {}
    /\ simulated = {}
    /\ sim_calls = 0
    /\ rag_calls = 0
    /\ turns = <<>>

EmptyStores ==
    /\ manifests = [i \in Ingests |-> NoRow]
    /\ ingestions = [i \in Ingests |-> NoRow]
    /\ lineage_nodes = [i \in Ingests |-> [s \in Stages |-> 0]]
    /\ chunks = {}
    /\ vectors = {}
    /\ dq_reports = [i \in Ingests |-> 0]
    /\ objects = {}
    /\ os_index = {}
    /\ queue = EmptyBag
    /\ workers = [w \in Workers |-> Idle]
    /\ log = [ingest_id |-> 0, stage |-> "", err |-> "none"]
    /\ clock = 0
    /\ marked = {}
    /\ created = {}

Init ==
    /\ EmptyStores
    /\ UnitIdle
    /\ QueryIdle
    /\ budget \in Environments

(***************************************************************************)
(* api/routers.py: POST /v1/ingest                                         *)
(***************************************************************************)
Upload(i, t, p) ==
    /\ i \notin created
    /\ i = Cardinality(created) + 1
    /\ budget.uploads > 0
    /\ budget' = [budget EXCEPT !.uploads = @ - 1]
    /\ created' = created \cup {i}
    /\ objects' = PutObject(PutObject(objects, ObjectKey(t, i, "raw"), "raw"),
                            ObjectKey(t, i, "metadata"), "manifest")
    /\ manifests' = [manifests EXCEPT ![i] = [status |-> "present", tenant_id |-> t, profile |-> p]]
    /\ ingestions' = update_status(ingestions, i, t, "QUEUED", "queued", "", FALSE, FALSE)
    /\ queue' = Enqueue(queue, Msg("parse_normalize", i, NoCanon))
    /\ UNCHANGED <<qvars, xvars>>
    /\ UNCHANGED <<marked, lineage_nodes, chunks, vectors, dq_reports, os_index, workers, log, clock>>

(***************************************************************************)
(* api/routers.py: POST /v1/reindex                                        *)
(***************************************************************************)
Reindex(i, t) ==
    /\ manifests[i] # NoRow
    /\ budget.events > 0
    /\ budget' = [budget EXCEPT !.events = @ - 1]
    /\ ingestions' = update_status(ingestions, i,
                                   IF t = "none" THEN manifests[i].tenant_id ELSE t,
                                   "QUEUED", "reindex_queued", "", FALSE, FALSE)
    /\ queue' = Enqueue(queue, Msg("parse_normalize", i, NoCanon))
    /\ UNCHANGED <<qvars, xvars>>
    /\ UNCHANGED <<marked, manifests, lineage_nodes, chunks, vectors, dq_reports, objects,
                   os_index, workers, log, clock, created>>

(***************************************************************************)
(* api/routers.py: DELETE /v1/ingest/{ingest_id}                           *)
(***************************************************************************)
DeleteFaults == {"none", "object_delete", "index_delete"}

(* The database transaction commits first.  An object-store error then      *)
(* leaves the handler (500) before the index is touched; an index error is  *)
(* logged by delete_ingest_from_index and the handler still answers 200.    *)
delete_rejection_404_only(i, t) ==
    IF manifests[i] = NoRow THEN "http_404" ELSE ""

(* the HTTPException raised before anything is deleted, "" when there is none *)
delete_rejection(i, t) ==
    IF manifests[i] = NoRow THEN "http_404"
    ELSE IF t # "none" /\ t # manifests[i].tenant_id THEN "http_400"
    ELSE ""

DeleteIngest(i, t, fault) ==
    /\ budget.events > (IF fault = "none" THEN 0 ELSE 1)
    /\ budget' = [budget EXCEPT !.events = @ - (IF fault = "none" THEN 1 ELSE 2)]
    /\ IF delete_rejection(i, t) # ""
       THEN /\ fault = "none"
            /\ log' = [ingest_id |-> i, stage |-> "delete", err |-> delete_rejection(i, t)]
            /\ UNCHANGED <<manifests, ingestions, lineage_nodes, chunks, vectors,
                           dq_reports, objects, os_index>>
       ELSE /\ vectors' = {v \in vectors : v.doc_id # i}
            /\ chunks' = {c \in chunks : c.doc_id # i}
            /\ dq_reports' = [dq_reports EXCEPT ![i] = 0]
            /\ lineage_nodes' = [lineage_nodes EXCEPT ![i] = [s \in Stages |-> 0]]
            /\ manifests' = [manifests EXCEPT ![i] = NoRow]
            /\ ingestions' = [ingestions EXCEPT ![i] = NoRow]
            /\ objects' = IF fault = "object_delete" THEN objects
                          ELSE delete_ingest_objects(objects, manifests[i].tenant_id, i)
            /\ os_index' = IF fault = "none"
                           THEN {d \in os_index :
                                    ~(d.tenant_id = manifests[i].tenant_id /\ d.doc_id = i)}
                           ELSE os_index
            /\ log' = IF fault = "none" THEN log
                      ELSE [ingest_id |-> i, stage |-> "delete", err |-> fault]
    /\ UNCHANGED <<qvars, xvars>>
    /\ UNCHANGED <<marked, queue, workers, clock, created>>

----
(***************************************************************************)
(* workers/tasks.py.  A worker holds the message it was handed, the        *)
(* manifest it read, the canonical payload it is building, and the result  *)
(* of the stage_completed read inside mark_stage_complete.                 *)
(***************************************************************************)
StageOf(task) == IF task = "enrich_stage" THEN "enrich" ELSE task

(* a chain that goes from pii_dq straight to chunk_embed *)
NextTaskSkipsEnrich(stage) ==
    CASE stage = "parse_normalize" -> "pii_dq"
      [] stage = "pii_dq"          -> "chunk_embed"
      [] stage = "enrich"          -> "chunk_embed"
      [] stage = "chunk_embed"     -> "index_publish"

NextTask(stage) ==
    CASE stage = "parse_normalize" -> "pii_dq"
      [] stage = "pii_dq"          -> "enrich_stage"
      [] stage = "enrich"          -> "chunk_embed"
      [] stage = "chunk_embed"     -> "index_publish"

Busy(w) == workers[w].pc # "idle"
WIngest(w) == workers[w].msg.ingest_id
WStage(w) == StageOf(workers[w].msg.task)
WTenant(w) == workers[w].manifest.tenant_id

Return(w) == workers' = [workers EXCEPT ![w] = Idle]

(* The task's work is done: it enters mark_stage_complete, whose first      *)
(* statement reads stage_completed, and carries the canonical it built.     *)
ToMark(w, out) ==
    workers' = [workers EXCEPT ![w] =
        [@ EXCEPT !.pc = "mark", !.out = out,
                  !.seen = stage_completed(WIngest(w), WStage(w))]]

(* The broker hands a message to an idle worker (the workers are            *)
(* interchangeable: the first idle one takes it).  With task_acks_late the  *)
(* message stays unacknowledged while the task runs and can be delivered    *)
(* again.  The task reads the manifest and returns if there is none, else   *)
(* it calls transition_processing(ingest_id, tenant_id, stage).             *)
Deliver(w, m, again) ==
    /\ ~Busy(w)
    /\ \A v \in Workers : v < w => Busy(v)
    /\ BagIn(m, queue)
    /\ IF again
       THEN /\ budget.events > 0
            /\ budget' = [budget EXCEPT !.events = @ - 1]
            /\ UNCHANGED queue
       ELSE /\ queue' = queue (-) SetToBag({m})
            /\ UNCHANGED budget
    /\ IF manifests[m.ingest_id] = NoRow
       THEN UNCHANGED <<workers, ingestions>>
       ELSE /\ workers' = [workers EXCEPT ![w] =
                  [pc |-> "work", msg |-> m, manifest |-> manifests[m.ingest_id],
                   out |-> m.canonical, seen |-> FALSE]]
            /\ ingestions' = transition_processing(ingestions, m.ingest_id,
                                 manifests[m.ingest_id].tenant_id, StageOf(m.task))
    /\ UNCHANGED <<qvars, xvars>>
    /\ UNCHANGED <<marked, manifests, lineage_nodes, chunks, vectors, dq_reports,
                   objects, os_index, log, clock, created>>

(* A dependency fails either because the environment makes it fail (spending *)
(* the fault budget) or because the data it needs is gone.                   *)
Fault(forced) ==
    \/ /\ forced
       /\ UNCHANGED budget
    \/ /\ ~forced
       /\ budget.events > 0
       /\ budget' = [budget EXCEPT !.events = @ - 1]

NoFault(forced) == ~forced /\ UNCHANGED budget

LogErr(w, err) == log' = [ingest_id |-> WIngest(w), stage |-> WStage(w), err |-> err]

(* parse_normalize: fetch the raw object (a failure is logged and the content *)
(* is empty), extract text, build canonical with ingested_at = utcnow().      *)
WorkParse(w) ==
    /\ workers[w].pc = "work"
    /\ WStage(w) = "parse_normalize"
    /\ LET rawKey == ObjectKey(WTenant(w), WIngest(w), "raw")
           missing == ~(\E o \in objects : o[1] = rawKey)
       IN \/ /\ NoFault(missing)
             /\ ToMark(w, [text |-> "raw", at |-> clock + 1, chunks |-> {}])
             /\ UNCHANGED log
          \/ /\ Fault(missing)
             /\ ToMark(w, [text |-> "", at |-> clock + 1, chunks |-> {}])
             /\ LogErr(w, "raw_fetch")
    /\ clock' = clock + 1
    /\ UNCHANGED <<qvars, xvars>>
    /\ UNCHANGED <<marked, manifests, ingestions, lineage_nodes, chunks, vectors, dq_reports,
                   objects, os_index, queue, created>>

PiiFound(w) == workers[w].msg.canonical.text = "raw" /\ workers[w].manifest.profile.pii
PiiRedacts(w) == workers[w].manifest.profile.action \in {"redact", "hash"}
PiiFails(w) ==
    \/ workers[w].manifest.profile.action \in {"fail", "reject"}
    \/ workers[w].manifest.profile.fail_on_pii

(* pii_dq *)
WorkPii(w) ==
    /\ workers[w].pc = "work"
    /\ WStage(w) = "pii_dq"
    /\ LET i == WIngest(w)
           t == WTenant(w)
           prof == workers[w].manifest.profile
           redact == PiiFound(w) /\ PiiRedacts(w)
           canonical == [workers[w].msg.canonical EXCEPT
                            !.text = IF redact THEN "red" ELSE @]
       IN /\ objects' = IF redact
                        THEN PutObject(objects, ObjectKey(t, i, "redacted"), "red")
                        ELSE objects
          /\ IF PiiFound(w) /\ PiiFails(w)
             THEN /\ ingestions' = IF ~stage_completed(i, "pii_dq")
                                   THEN transition_failed(ingestions, i, t, "pii_dq",
                                                          "PII policy violation")
                                   ELSE ingestions
                  /\ Return(w)
                  /\ UNCHANGED dq_reports
             ELSE /\ dq_reports' = [dq_reports EXCEPT ![i] = @ + 1]
                  /\ IF ~prof.dq_ok /\ ~stage_completed(i, "pii_dq") /\ ~prof.continue_on_warn
                     THEN /\ ingestions' = transition_failed(ingestions, i, t, "pii_dq",
                                                             "DQ checks failed")
                          /\ Return(w)
                     ELSE /\ UNCHANGED ingestions
                          /\ ToMark(w, canonical)
    /\ UNCHANGED <<qvars, xvars>>
    /\ UNCHANGED <<marked, manifests, lineage_nodes, chunks, vectors, os_index, queue, log,
                   clock, created, budget>>

(* enrich_stage: enrich_text only annotates canonical *)
WorkEnrich(w) ==
    /\ workers[w].pc = "work"
    /\ WStage(w) = "enrich"
    /\ ToMark(w, workers[w].msg.canonical)
    /\ UNCHANGED <<qvars, xvars>>
    /\ UNCHANGED <<marked, manifests, ingestions, lineage_nodes, chunks, vectors, dq_reports,
                   objects, os_index, queue, log, clock, created, budget>>

(* chunk_id = sha1(doc_id :: idx :: text) *)
ChunkId(doc, idx, text) == <<doc, idx, text>>

(* semantic_chunks on the canonical text: no words, no chunks *)
ChunkPayloads(doc, text) ==
    IF text = "" THEN {} ELSE {ChunkId(doc, idx, text) : idx \in 1..ChunksPerDoc}

(* _record_chunks: INSERT ... ON CONFLICT (chunk_id) DO NOTHING *)
record_chunks(tbl, t, doc, ids) ==
    tbl \cup {[chunk_id |-> c, doc_id |-> doc, tenant_id |-> t] :
                 c \in {x \in ids : ~(\E r \in tbl : r.chunk_id = x)}}

WorkChunk(w) ==
    /\ workers[w].pc = "work"
    /\ WStage(w) = "chunk_embed"
    /\ LET ids == ChunkPayloads(WIngest(w), workers[w].msg.canonical.text)
       IN /\ chunks' = record_chunks(chunks, WTenant(w), WIngest(w), ids)
          /\ ToMark(w, [workers[w].msg.canonical EXCEPT !.chunks = ids])
    /\ UNCHANGED <<qvars, xvars>>
    /\ UNCHANGED <<marked, manifests, ingestions, lineage_nodes, vectors, dq_reports, objects,
                   os_index, queue, log, clock, created, budget>>

(* generate_embeddings: a deterministic function of the chunk text *)
Embedding(c) == <<"emb", c[3]>>

(* upsert_vectors: INSERT ... ON CONFLICT (chunk_id) DO UPDATE SET embedding, metadata *)
upsert_vectors(tbl, ids, t, at) ==
    {v \in tbl : v.chunk_id \notin ids}
    \cup {[chunk_id |-> c, tenant_id |-> t, doc_id |-> c[1],
           embedding |-> Embedding(c), ingested_at |-> at] :
             c \in {x \in ids : ~(\E v \in tbl : v.chunk_id = x)}}
    \cup {[v EXCEPT !.embedding = Embedding(v.chunk_id), !.ingested_at = at] :
             v \in {x \in tbl : x.chunk_id \in ids}}

(* index_bm25: client.index(index, id=chunk_id, body) replaces the document *)
index_bm25(idx, ids, t, at) ==
    {d \in idx : d.chunk_id \notin ids}
    \cup {[chunk_id |-> c, doc_id |-> c[1], tenant_id |-> t, ingested_at |-> at] : c \in ids}

(* index_publish *)
fk_unchecked(ids, tbl) == FALSE

(* vectors.chunk_id REFERENCES chunks.chunk_id: an insert without its chunk *)
(* row raises                                                               *)
fk_violation(ids, tbl) == \E c \in ids : ~(\E r \in tbl : r.chunk_id = c)

WorkIndex(w) ==
    /\ workers[w].pc = "work"
    /\ WStage(w) = "index_publish"
    /\ LET i == WIngest(w)
           t == WTenant(w)
           can == workers[w].msg.canonical
           ids == can.chunks
           fk == fk_violation(ids, chunks)
       IN \/ \* generate_embeddings raises: the exception leaves the task
             /\ ids # {}
             /\ Fault(FALSE)
             /\ LogErr(w, "embed")
             /\ Return(w)
             /\ UNCHANGED <<ingestions, vectors, os_index>>
          \/ \* upsert_vectors raises: the except branch
             /\ ids # {}
             /\ Fault(fk)
             /\ LogErr(w, "upsert")
             /\ ingestions' = IF ~stage_completed(i, "index_publish")
                              THEN transition_failed(ingestions, i, t, "index_publish", "upsert")
                              ELSE ingestions
             /\ Return(w)
             /\ UNCHANGED <<vectors, os_index>>
          \/ \* client.index raises for the documents: logged inside index_bm25
             /\ ids # {}
             /\ ~fk
             /\ Fault(FALSE)
             /\ LogErr(w, "index")
             /\ vectors' = upsert_vectors(vectors, ids, t, can.at)
             /\ ToMark(w, can)
             /\ UNCHANGED <<ingestions, os_index>>
          \/ /\ NoFault(fk)
             /\ vectors' = upsert_vectors(vectors, ids, t, can.at)
             /\ os_index' = index_bm25(os_index, ids, t, can.at)
             /\ ToMark(w, can)
             /\ UNCHANGED <<ingestions, log>>
    /\ UNCHANGED <<qvars, xvars>>
    /\ UNCHANGED <<marked, manifests, lineage_nodes, chunks, dq_reports, objects, queue,
                   clock, created>>

(* record_node: INSERT INTO lineage_nodes, ingest_id references manifests *)
record_node(tbl, i, stage) == [tbl EXCEPT ![i][stage] = @ + 1]

(* mark_stage_complete after its read, and the rest of the task: enqueue the   *)
(* next stage, or transition_completed at the end of index_publish.          *)
MarkAndContinue(w) ==
    /\ workers[w].pc = "mark"
    /\ LET i == WIngest(w)
           stage == WStage(w)
       IN IF ~workers[w].seen /\ manifests[i] = NoRow
          THEN \* foreign key violation: the exception leaves the task
               /\ LogErr(w, "db")
               /\ UNCHANGED <<lineage_nodes, ingestions, queue, marked>>
          ELSE /\ lineage_nodes' = IF workers[w].seen THEN lineage_nodes
                                   ELSE record_node(lineage_nodes, i, stage)
               /\ marked' = IF workers[w].seen THEN marked
                            ELSE marked \cup {<<i, stage>>}
               /\ IF stage = "index_publish"
                  THEN /\ ingestions' = transition_completed(ingestions, i, WTenant(w))
                       /\ UNCHANGED queue
                  ELSE /\ queue' = Enqueue(queue, Msg(NextTask(stage), i, workers[w].out))
                       /\ UNCHANGED ingestions
               /\ UNCHANGED log
    /\ Return(w)
    /\ UNCHANGED <<qvars, xvars>>
    /\ UNCHANGED <<manifests, chunks, vectors, dq_reports, objects, os_index,
                   clock, created, budget>>

TaskStep(w) ==
    \/ WorkParse(w)
    \/ WorkPii(w)
    \/ WorkEnrich(w)
    \/ WorkChunk(w)
    \/ WorkIndex(w)
    \/ MarkAndContinue(w)

Next ==
    \/ \E i \in Ingests, t \in Tenants, p \in Profiles : Upload(i, t, p)
    \/ \E i \in Ingests, t \in RequestTenants : Reindex(i, t)
    \/ \E i \in Ingests, t \in RequestTenants, fault \in DeleteFaults : DeleteIngest(i, t, fault)
    \/ \E w \in Workers, m \in BagToSet(queue), again \in BOOLEAN : Deliver(w, m, again)
    \/ \E w \in Workers : TaskStep(w)

Spec == Init /\ [][Next]_vars

(***************************************************************************)
(* The broker delivers every queued message and a worker runs the task it  *)
(* was handed to the end: one ingest, one environment event.               *)
(***************************************************************************)
LiveInit ==
    /\ EmptyStores
    /\ UnitIdle
    /\ QueryIdle
    /\ budget = [uploads |-> 1, events |-> 1]

LiveSpec ==
    /\ LiveInit
    /\ [][Next]_vars
    /\ WF_vars(\E w \in Workers, m \in BagToSet(queue) : Deliver(w, m, FALSE))
    /\ \A w \in Workers : WF_vars(TaskStep(w))

----
(***************************************************************************)
(* orchestrator/handler.py: the evidence gate.  Scores are in hundredths.  *)
(***************************************************************************)
RAG_REQUIRED_MIN_SOURCES == 3
RAG_SCORE_THRESHOLD == 18
RAG_MIN_CHARS == 300
DATE_BIAS_START == 2024
FRESHNESS_BONUS == 5
max_context_chunks == 5
long_query_top_k == 10
INSUFFICIENT_MESSAGE == "INSUFFICIENT EVIDENCE"

(* The chunks the retrieval service can answer with.  One has neither      *)
(* doc_id nor a usable source, one is short, one is below the threshold    *)
(* and recent, and one repeats the title of another document.              *)
HitPool ==
    << [chunk_id |-> "c1", doc_id |-> "d1", score |-> 40, chars |-> 400, title |-> "t1", year |-> 2023],
       [chunk_id |-> "c2", doc_id |-> "d2", score |-> 18, chars |-> 400, title |-> "t2", year |-> 2023],
       [chunk_id |-> "c3", doc_id |-> "d3", score |-> 20, chars |-> 400, title |-> "t3", year |-> 2023],
       [chunk_id |-> "c4", doc_id |-> "d4", score |-> 17, chars |-> 400, title |-> "t4", year |-> 2024],
       [chunk_id |-> "c5", doc_id |-> "d5", score |-> 25, chars |-> 400, title |-> "t1", year |-> 2023],
       [chunk_id |-> "c6", doc_id |-> "d6", score |-> 30, chars |-> 120, title |-> "t6", year |-> 2023],
       [chunk_id |-> "c7", doc_id |-> "",   score |-> 30, chars |-> 400, title |-> "t7", year |-> 2023] >>

RECURSIVE PickHits(_, _)
PickHits(S, n) ==
    IF n = 0 THEN <<>>
    ELSE PickHits(S, n - 1) \o (IF n \in S THEN <<HitPool[n]>> ELSE <<>>)

HitLists == {PickHits(S, Len(HitPool)) : S \in SUBSET (1..Len(HitPool))}

(* An answer longer than max_context_chunks: two chunks of each of two      *)
(* documents, a third document near the threshold and a recent chunk just  *)
(* below it.                                                               *)
CrowdedHits ==
    << HitPool[1],
       [chunk_id |-> "c8", doc_id |-> "d1", score |-> 35, chars |-> 400, title |-> "t8", year |-> 2023],
       HitPool[3],
       [chunk_id |-> "c9", doc_id |-> "d3", score |-> 19, chars |-> 400, title |-> "t9", year |-> 2023],
       HitPool[2],
       HitPool[4] >>

RetrievalOutcomes ==
    {[called |-> TRUE, error |-> TRUE, hits |-> <<>>]}
        \cup {[called |-> TRUE, error |-> FALSE, hits |-> h] : h \in HitLists \cup {CrowdedHits}}

SeqToSet(s) == {s[k] : k \in DOMAIN s}

_filter_short_chunks(hits) ==
    SelectSeq(hits, LAMBDA h : h.chars >= RAG_MIN_CHARS)

BiasedScore(h, bias_recent) ==
    h.score + (IF bias_recent /\ h.year >= DATE_BIAS_START THEN FRESHNESS_BONUS ELSE 0)

(* sorted(..., reverse=True) is stable: equal keys keep their order *)
RECURSIVE InsertByScore(_, _, _)
InsertByScore(sorted, h, bias_recent) ==
    IF sorted = <<>> THEN <<h>>
    ELSE IF BiasedScore(Head(sorted), bias_recent) >= BiasedScore(h, bias_recent)
         THEN <<Head(sorted)>> \o InsertByScore(Tail(sorted), h, bias_recent)
         ELSE <<h>> \o sorted

RECURSIVE SortByScore(_, _)
SortByScore(hits, bias_recent) ==
    IF hits = <<>> THEN <<>>
    ELSE InsertByScore(SortByScore(SubSeq(hits, 1, Len(hits) - 1), bias_recent),
                       hits[Len(hits)], bias_recent)

FirstK(s, k) == SubSeq(s, 1, IF Len(s) < k THEN Len(s) ELSE k)

rerank(hits, k) == FirstK(SortByScore(hits, FALSE), k)

_apply_freshness_bias(hits, bias_recent) ==
    IF bias_recent THEN SortByScore(hits, TRUE) ELSE hits

DedupeKey(h) == <<h.year, h.title>>

RECURSIVE _deduplicate_hits(_)
_deduplicate_hits(hits) ==
    IF hits = <<>> THEN <<>>
    ELSE LET before == _deduplicate_hits(SubSeq(hits, 1, Len(hits) - 1))
             h == hits[Len(hits)]
         IN IF \E u \in SeqToSet(before) : DedupeKey(u) = DedupeKey(h)
            THEN before
            ELSE Append(before, h)

_doc_identifier(h) ==
    IF h.doc_id # "" THEN h.doc_id ELSE h.chunk_id

DedupedHits(hits, bias_recent) ==
    _deduplicate_hits(
        _apply_freshness_bias(
            rerank(_filter_short_chunks(hits),
                   IF long_query_top_k > max_context_chunks
                   THEN long_query_top_k ELSE max_context_chunks),
            bias_recent))

high_quality_ids(deduped_hits) ==
    {_doc_identifier(h) : h \in {u \in SeqToSet(deduped_hits) : u.score >= RAG_SCORE_THRESHOLD}} \ {""}

doc_count(deduped_hits) == Cardinality(high_quality_ids(deduped_hits))

rag_failure(out, bias_recent) ==
    IF out.error THEN "INDEX_NOT_READY"
    ELSE LET deduped_hits == DedupedHits(out.hits, bias_recent)
         IN IF doc_count(deduped_hits) >= RAG_REQUIRED_MIN_SOURCES THEN ""
            ELSE IF deduped_hits = <<>> THEN "NO_MATCHES"
            ELSE "LOW_CONFIDENCE"

(***************************************************************************)
(* orchestrator/handler.py, risk.py: the risk helper and its cache.        *)
(* A riskSpec is a dict: its key/value pairs in insertion order.           *)
(***************************************************************************)
DATA_VERSION == "1.0"
SortedKeys == <<"revenue", "trials">>

RiskSpecs ==
    { <<>>,
      << <<"revenue", "500k">>, <<"trials", "10000">> >>,
      << <<"trials", "10000">>, <<"revenue", "500k">> >>,
      << <<"revenue", "600k">>, <<"trials", "10000">> >> }

(* dict equality: the same pairs, whatever the insertion order *)
AsDict(spec) == SeqToSet(spec)

(* json.dumps without sort_keys: pairs in insertion order *)
DumpsUnsorted(spec) == spec

(* json.dumps(..., sort_keys=True): one pair per key, keys in sorted order *)
DumpsSorted(spec) ==
    LET present == SelectSeq(SortedKeys, LAMBDA k : \E p \in SeqToSet(spec) : p[1] = k)
    IN [n \in DOMAIN present |->
            CHOOSE p \in SeqToSet(spec) : p[1] = present[n]]

(* a signature taken over the dump in insertion order *)
risk_signature_unsorted(spec, v) == <<DumpsUnsorted(spec), v>>

(* sha256 of the dump of {"spec": spec, "v": data_version} *)
risk_signature(spec, v) == <<DumpsSorted(spec), v>>

SimOutcomes == {"ok", "simulation_http_error", "simulation_failed", "simulation_invalid_payload"}

Requests ==
    [needRag : BOOLEAN, needRisk : BOOLEAN, riskSpec : RiskSpecs,
     force_rag : BOOLEAN, fresh : BOOLEAN]

rag_required_plan_only(req) == req.needRag

rag_required(req) == req.needRag \/ req.force_rag

Drafts == [claims : {2, 3}, citations : {1, 2}]

(* memory.py: append_turn on a deque(maxlen=40) *)
MEMORY_MAXLEN == 40

append_turn_unbounded(ts, text) == Append(ts, text)

append_turn(ts, text) ==
    IF Len(ts) >= MEMORY_MAXLEN THEN Append(Tail(ts), text) ELSE Append(ts, text)

AfterRetrieval(req) == IF req.needRisk THEN "risk" ELSE "compose"

(* handle_query up to the planner's answer *)
Receive(req) ==
    /\ query.pc \in {"idle", "done"}
    /\ Len(turns) < MaxQueries
    /\ query' = [pc |-> IF rag_required(req) THEN "retrieve" ELSE AfterRetrieval(req),
                 req |-> req,
                 known |-> AsDict(req.riskSpec) \in simulated,
                 pack |-> <<>>,
                 risk |-> NoRisk]
    /\ retrieved' = NoRetrieval
    /\ response' = NoResponse
    /\ UNCHANGED <<risk_cache, simulated, sim_calls, rag_calls, turns>>
    /\ UNCHANGED <<ivars, xvars>>

_build_insufficient_response(failure) ==
    [route |-> "RAG", text |-> INSUFFICIENT_MESSAGE, citations |-> 0,
     rag_failure |-> failure, rag_used |-> FALSE, risk |-> NoRisk,
     meta_risk_error |-> ""]

AfterGate_falls_through(failure, req) == AfterRetrieval(req)

(* if rag_failure: return _build_insufficient_response(...), before the    *)
(* risk helper and the synthesis                                           *)
AfterGate(failure, req) ==
    IF failure # "" THEN "done" ELSE AfterRetrieval(req)

(* hybrid_search answers or raises; the gate either returns the            *)
(* insufficient-evidence response or builds the RAG pack                   *)
Retrieve(out) ==
    /\ query.pc = "retrieve"
    /\ rag_calls' = rag_calls + 1
    /\ retrieved' = out
    /\ LET failure == rag_failure(out, query.req.fresh)
       IN IF failure # ""
          THEN /\ response' = _build_insufficient_response(failure)
               /\ turns' = append_turn(turns, INSUFFICIENT_MESSAGE)
               /\ query' = [query EXCEPT !.pc = AfterGate(failure, query.req)]
          ELSE /\ query' = [query EXCEPT
                               !.pc = AfterGate(failure, query.req),
                               !.pack = FirstK(DedupedHits(out.hits, query.req.fresh),
                                               max_context_chunks)]
               /\ UNCHANGED <<response, turns>>
    /\ UNCHANGED <<risk_cache, simulated, sim_calls>>
    /\ UNCHANGED <<ivars, xvars>>

(* the risk path: no spec, a cache hit, or a call to the simulator *)
SimErrors == SimOutcomes \ {"ok"}

risk_store_always(cache, signature, outcome) == cache \cup {signature}

(* the payload is stored only when it is a dict without an error *)
risk_store(cache, signature, outcome) ==
    IF outcome = "ok" THEN cache \cup {signature} ELSE cache

RiskStep(outcome) ==
    /\ query.pc = "risk"
    /\ LET spec == query.req.riskSpec
           signature == risk_signature(spec, DATA_VERSION)
       IN IF spec = <<>>
          THEN /\ outcome = "ok"
               /\ query' = [query EXCEPT !.pc = "compose",
                                         !.risk = [NoRisk EXCEPT !.error = "risk_spec_missing"]]
               /\ UNCHANGED <<risk_cache, simulated, sim_calls>>
          ELSE IF signature \in risk_cache
          THEN /\ outcome = "ok"
               /\ query' = [query EXCEPT !.pc = "compose",
                                         !.risk = [attempted |-> TRUE, used |-> TRUE,
                                                   cache_hit |-> "true", error |-> ""]]
               /\ UNCHANGED <<risk_cache, simulated, sim_calls>>
          ELSE /\ sim_calls' = sim_calls + 1
               /\ risk_cache' = risk_store(risk_cache, signature, outcome)
               /\ IF outcome = "ok"
                  THEN /\ simulated' = simulated \cup {AsDict(spec)}
                       /\ query' = [query EXCEPT !.pc = "compose",
                                                 !.risk = [attempted |-> TRUE, used |-> TRUE,
                                                           cache_hit |-> "false", error |-> ""]]
                  ELSE /\ query' = [query EXCEPT !.pc = "compose",
                                                 !.risk = [attempted |-> TRUE, used |-> FALSE,
                                                           cache_hit |-> "false", error |-> outcome]]
                       /\ UNCHANGED simulated
    /\ UNCHANGED <<retrieved, response, rag_calls, turns>>
    /\ UNCHANGED <<ivars, xvars>>

acknowledge_nothing(final) == final

acknowledge_low_evidence(final) == [text |-> "low_evidence", citations |-> 0]

Route_by_attempt(has_pack, risk_active) ==
    IF has_pack THEN "RAG_RISK" ELSE "RISK"

Route(has_pack, risk_active) ==
    IF has_pack /\ risk_active THEN "RAG_RISK"
    ELSE IF has_pack THEN "RAG"
    ELSE IF risk_active THEN "RISK"
    ELSE "LLM_ONLY"

(* synthesis, the low-evidence guard, the memory turn and the envelope *)
Compose(draft) ==
    /\ query.pc = "compose"
    /\ LET has_pack == query.pack # <<>>
           composed == [text |-> "draft", citations |-> draft.citations]
           final == IF has_pack /\ draft.claims > 2 /\ draft.citations < 2
                    THEN acknowledge_low_evidence(composed)
                    ELSE composed
       IN /\ turns' = append_turn(turns, final.text)
          /\ response' = [route |-> Route(has_pack, query.risk.used),
                          text |-> final.text,
                          citations |-> final.citations,
                          rag_failure |-> "",
                          rag_used |-> has_pack,
                          risk |-> query.risk,
                          meta_risk_error |-> query.risk.error]
    /\ query' = [query EXCEPT !.pc = "done"]
    /\ UNCHANGED <<retrieved, risk_cache, simulated, sim_calls, rag_calls>>
    /\ UNCHANGED <<ivars, xvars>>

QueryNext ==
    \/ \E req \in Requests : Receive(req)
    \/ \E out \in RetrievalOutcomes : Retrieve(out)
    \/ \E outcome \in SimOutcomes : RiskStep(outcome)
    \/ \E draft \in Drafts : Compose(draft)

QueryInit ==
    /\ EmptyStores
    /\ UnitIdle
    /\ QueryIdle
    /\ budget = [uploads |-> 0, events |-> 0]

QuerySpec == QueryInit /\ [][QueryNext]_vars

----
(***************************************************************************)
(* The planner (planner.py).  A message is a sequence of phrases; the LLM   *)
(* reply is a JSON plan, text that is not JSON, JSON that is not a Plan, or *)
(* an exception of the LLM client.                                          *)
(***************************************************************************)

MaxPhrases == 2

Phrases == {"What is", "explain", "Simulate", "monte carlo", "hello"}

Lower(phrase) ==
    IF phrase = "What is" THEN "what is"
    ELSE IF phrase = "Simulate" THEN "simulate"
    ELSE phrase

SIM_KEYWORDS == {"monte carlo", "simulate", "simulation", "risk scenario"}

DEFINITIONAL == {"what is", "what's", "define", "explain"}

Messages == UNION {[1..n -> Phrases] : n \in 0..MaxPhrases}

ReplyKinds == {"plan", "not_json", "not_a_plan", "llm_error"}

Replies == [kind : ReplyKinds, needRag : BOOLEAN, needRisk : BOOLEAN]

force_risk(user_msg) ==
    \E k \in DOMAIN user_msg : Lower(user_msg[k]) \in SIM_KEYWORDS

_looks_definitional(user_msg) ==
    \E k \in DOMAIN user_msg : Lower(user_msg[k]) \in DEFINITIONAL

_default_plan == [needRag |-> FALSE, needRisk |-> FALSE]

plan_as_proposed(user_msg, reply) ==
    IF reply.kind = "plan"
    THEN [needRag |-> reply.needRag, needRisk |-> reply.needRisk]
    ELSE _default_plan

plan(user_msg, reply) ==
    IF reply.kind = "plan"
    THEN [needRag |-> reply.needRag,
          needRisk |-> IF force_risk(user_msg) THEN TRUE
                       ELSE IF _looks_definitional(user_msg) THEN FALSE
                       ELSE reply.needRisk]
    ELSE _default_plan

PlanCall ==
    /\ planner.pc = "call"
    /\ planner' = [planner EXCEPT !.pc = "done",
                                  !.plan = plan(planner.user_msg, planner.reply)]
    /\ UNCHANGED <<ivars, qvars>>
    /\ UNCHANGED <<_turns, _turn_counters, appended, window, mem_env, lvars, uvars>>

PlannerInit ==
    /\ EmptyStores
    /\ RetrieverIdle /\ ChunkerIdle /\ WebhookIdle
    /\ QueryIdle
    /\ MemoryIdle
    /\ budget = [uploads |-> 0, events |-> 0]
    /\ planner \in [pc : {"call"}, user_msg : Messages, reply : Replies, plan : {NoPlan}]

PlannerSpec == PlannerInit /\ [][PlanCall]_vars

----
(***************************************************************************)
(* Conversational memory (memory.py).  A text is the list of its pieces     *)
(* between blanks; " " is a piece of whitespace only.  The string           *)
(* get_recent_window returns is the list of its blocks.                     *)
(***************************************************************************)

MaxAppends == 42
MaxWindowTurns == 3
MaxTokenCap == 5

Texts == {<<>>, <<" ">>, <<"w">>, <<"w", "w">>}

TokenCaps == (0 - 1)..MaxTokenCap

(* long threads of one-word turns, or short threads of every kind of turn *)
MemEnvironments ==
    {[users |-> {<<"w">>}, assistants |-> {<<"w">>}, appends |-> MaxAppends],
     [users |-> Texts, assistants |-> {<<>>, <<"w">>}, appends |-> MaxWindowTurns]}

Max(a, b) == IF a >= b THEN a ELSE b
Min(a, b) == IF a <= b THEN a ELSE b

(* len(text.strip().split()), at least 1 for a text that is not empty *)
approx_token_len(text) ==
    IF text = <<>> THEN 0
    ELSE Max(1, Cardinality({k \in DOMAIN text : text[k] # " "}))

MemoryTurn(user, assistant, n) ==
    [user |-> user, assistant |-> assistant,
     tokens |-> approx_token_len(user) + approx_token_len(assistant), seq |-> n]

(* f"User: {turn.user}\nAssistant: {turn.assistant}" *)
Block(turn) == [user |-> turn.user, assistant |-> turn.assistant]

Reverse(s) == [k \in 1..Len(s) |-> s[Len(s) + 1 - k]]

(* the loop over reversed(turns), from turn k down *)
RECURSIVE Collect(_, _, _, _)
Collect(turns_, k, budget_, collected) ==
    IF k = 0 THEN collected
    ELSE LET block_tokens == approx_token_len(turns_[k].user)
                                + approx_token_len(turns_[k].assistant)
         IN IF budget_ - block_tokens < 0 /\ collected # <<>>
            THEN collected
            ELSE IF budget_ - block_tokens <= 0
            THEN Append(collected, Block(turns_[k]))
            ELSE Collect(turns_, k - 1, budget_ - block_tokens,
                         Append(collected, Block(turns_[k])))

get_recent_window_uncapped(turns_, token_cap) ==
    [k \in 1..Len(turns_) |-> Block(turns_[k])]

get_recent_window(turns_, token_cap) ==
    IF token_cap <= 0 THEN <<>>
    ELSE IF turns_ = <<>> THEN <<>>
    ELSE Reverse(Collect(turns_, Len(turns_), token_cap, <<>>))

Appends == _turn_counters["thread-1"] + _turn_counters["thread-2"]

MemAppend(t, user, assistant) ==
    /\ Appends < mem_env.appends
    /\ LET turn == MemoryTurn(user, assistant, _turn_counters[t] + 1)
       IN /\ _turns' = [_turns EXCEPT ![t] = append_turn(@, turn)]
          /\ appended' = [appended EXCEPT ![t] = Append(@, turn)]
    /\ _turn_counters' = [_turn_counters EXCEPT ![t] = @ + 1]
    /\ UNCHANGED <<window, mem_env, planner, lvars, uvars>>
    /\ UNCHANGED <<ivars, qvars>>

GetWindow(t, token_cap) ==
    /\ UNCHANGED <<_turns, _turn_counters, appended, mem_env, planner, lvars, uvars>>
    /\ window' = [called |-> TRUE, thread_id |-> t, token_cap |-> token_cap,
                  blocks |-> get_recent_window(_turns[t], token_cap)]
    /\ UNCHANGED <<ivars, qvars>>

MemoryNext ==
    \/ \E t \in Threads, user \in mem_env.users, assistant \in mem_env.assistants :
          MemAppend(t, user, assistant)
    \/ \E t \in Threads, token_cap \in TokenCaps : GetWindow(t, token_cap)

MemoryInit ==
    /\ EmptyStores
    /\ RetrieverIdle /\ ChunkerIdle /\ WebhookIdle
    /\ QueryIdle
    /\ PlannerIdle
    /\ MemoryEmpty
    /\ LocksIdle
    /\ budget = [uploads |-> 0, events |-> 0]
    /\ mem_env \in MemEnvironments

MemorySpec == MemoryInit /\ [][MemoryNext]_vars

----
(***************************************************************************)
(* Concurrent calls into the MemoryStore.  Each caller runs append_turn or  *)
(* maybe_update_long_summary on a thread_id; a step is one access to the    *)
(* shared dictionaries.  A Lock object is named by the caller that made it. *)
(***************************************************************************)

MemOps == {"append_turn", "maybe_update_long_summary"}

CallerThread(c) == callers[c].thread_id

(* _lock_for: lock = self._locks.get(thread_id) *)
LockLookup(c) ==
    /\ callers[c].pc = "lock_for"
    /\ callers' = [callers EXCEPT ![c].lock = _locks[CallerThread(c)],
                                  ![c].pc = IF _locks[CallerThread(c)] = 0
                                            THEN "lock_new" ELSE "acquire"]
    /\ UNCHANGED <<_locks, held, _turns, _turn_counters, appended>>

(* _lock_for: lock = threading.Lock(); self._locks[thread_id] = lock *)
LockCreate(c) ==
    /\ callers[c].pc = "lock_new"
    /\ _locks' = [_locks EXCEPT ![CallerThread(c)] = c]
    /\ callers' = [callers EXCEPT ![c].lock = c, ![c].pc = "acquire"]
    /\ UNCHANGED <<held, _turns, _turn_counters, appended>>

(* with lock: *)
Acquire(c) ==
    /\ callers[c].pc = "acquire"
    /\ callers[c].lock \notin held
    /\ held' = held \cup {callers[c].lock}
    /\ callers' = [callers EXCEPT ![c].pc = "append"]
    /\ UNCHANGED <<_locks, _turns, _turn_counters, appended>>

(* turns = self._turns.setdefault(...); turns.append(MemoryTurn(...)) *)
AppendDeque(c) ==
    /\ callers[c].pc = "append"
    /\ LET turn == MemoryTurn(<<"w">>, <<"w">>, c)
       IN /\ _turns' = [_turns EXCEPT ![CallerThread(c)] = append_turn(@, turn)]
          /\ appended' = [appended EXCEPT ![CallerThread(c)] = Append(@, turn)]
    /\ callers' = [callers EXCEPT ![c].pc = "counter_get"]
    /\ UNCHANGED <<_locks, held, _turn_counters>>

(* self._turn_counters.get(thread_id, 0) *)
CounterGet(c) ==
    /\ callers[c].pc = "counter_get"
    /\ callers' = [callers EXCEPT ![c].seen = _turn_counters[CallerThread(c)],
                                  ![c].pc = "counter_set"]
    /\ UNCHANGED <<_locks, held, _turns, _turn_counters, appended>>

(* self._turn_counters[thread_id] = ... + 1, and the lock is released *)
CounterSet(c) ==
    /\ callers[c].pc = "counter_set"
    /\ _turn_counters' = [_turn_counters EXCEPT ![CallerThread(c)] = callers[c].seen + 1]
    /\ held' = held \ {callers[c].lock}
    /\ callers' = [callers EXCEPT ![c].pc = "done"]
    /\ UNCHANGED <<_locks, _turns, appended>>

(* maybe_update_long_summary: turns = self._turns.get(thread_id), no lock *)
SummaryReadTurns(c) ==
    /\ callers[c].pc = "read_turns"
    /\ callers' = [callers EXCEPT ![c].seen_len = Len(_turns[CallerThread(c)]),
                                  ![c].pc = IF _turns[CallerThread(c)] = <<>>
                                            THEN "done" ELSE "read_counter"]
    /\ UNCHANGED <<_locks, held, _turns, _turn_counters, appended>>

(* maybe_update_long_summary: turn_count = self._turn_counters.get(...) *)
SummaryReadCounter(c) ==
    /\ callers[c].pc = "read_counter"
    /\ callers' = [callers EXCEPT ![c].seen = _turn_counters[CallerThread(c)],
                                  ![c].pc = "done"]
    /\ UNCHANGED <<_locks, held, _turns, _turn_counters, appended>>

MemStep(c) ==
    /\ \/ LockLookup(c)
       \/ LockCreate(c)
       \/ Acquire(c)
       \/ AppendDeque(c)
       \/ CounterGet(c)
       \/ CounterSet(c)
       \/ SummaryReadTurns(c)
       \/ SummaryReadCounter(c)
    /\ UNCHANGED <<planner, window, mem_env, uvars>>
    /\ UNCHANGED <<ivars, qvars>>

StartCall(op, t) ==
    [op |-> op, pc |-> IF op = "append_turn" THEN "lock_for" ELSE "read_turns",
     thread_id |-> t, lock |-> 0, seen_len |-> 0, seen |-> 0]

MemLockInit ==
    /\ EmptyStores
    /\ RetrieverIdle /\ ChunkerIdle /\ WebhookIdle
    /\ QueryIdle
    /\ PlannerIdle
    /\ MemoryEmpty
    /\ budget = [uploads |-> 0, events |-> 0]
    /\ mem_env = [users |-> {}, assistants |-> {}, appends |-> 0]
    /\ _locks = [t \in Threads |-> 0]
    /\ held = {}
    /\ callers \in [Callers -> {StartCall(op, t) : op \in MemOps, t \in Threads}]

MemLockNext == \E c \in Callers : MemStep(c)

MemLockSpec == MemLockInit /\ [][MemLockNext]_vars

----
(***************************************************************************)
(* HybridRetriever.retrieve (rag/retriever.py): the per-document cap and    *)
(* the final truncation, applied to the reranked hits.  A hit parsed from   *)
(* an index document without doc_id, document_id, title and source has an   *)
(* empty doc_id and an empty source.                                        *)
(***************************************************************************)

MaxHits == 4

retrieval_top_k == 5

DocIds == {"", "d1", "d2"}
Sources == {"", "s1"}

RetrievedDocuments == [doc_id : DocIds, source : Sources]

(* reranked hits; chunk_id is the key of the merge, unique per hit *)
Reranked ==
    UNION {{[k \in 1..n |-> [doc_id |-> f[k].doc_id, source |-> f[k].source, chunk_id |-> k]] :
               f \in [1..n -> RetrievedDocuments]} : n \in 0..MaxHits}

PerDocCaps == {1, 2}
TopKs == {0, 1, 3}

DocKey(hit) ==
    IF hit.doc_id # "" THEN <<"doc", hit.doc_id>>
    ELSE IF hit.source # "" THEN <<"doc", hit.source>>
    ELSE <<"chunk", hit.chunk_id>>

(* the loop over reranked, from hit k on *)
RECURSIVE CapLoop(_, _, _, _)
CapLoop(reranked, k, doc_cap, capped_hits) ==
    IF k > Len(reranked) THEN capped_hits
    ELSE LET count == Cardinality({j \in DOMAIN capped_hits :
                                      DocKey(capped_hits[j]) = DocKey(reranked[k])})
         IN IF count >= doc_cap
            THEN CapLoop(reranked, k + 1, doc_cap, capped_hits)
            ELSE CapLoop(reranked, k + 1, doc_cap, Append(capped_hits, reranked[k]))

Limit(top_k) == IF top_k # 0 THEN top_k ELSE retrieval_top_k

retrieve(reranked, doc_cap, top_k) ==
    FirstK(CapLoop(reranked, 1, doc_cap, <<>>), Limit(top_k))

RetrieveCall ==
    /\ retriever.pc = "call"
    /\ retriever' = [retriever EXCEPT
                        !.pc = "done",
                        !.out = retrieve(retriever.reranked, retriever.doc_cap, retriever.top_k)]
    /\ UNCHANGED <<ivars, qvars, planner, _turns, _turn_counters, appended, window, mem_env,
                   lvars, chunker, webhook>>

RetrieverInit ==
    /\ EmptyStores
    /\ QueryIdle
    /\ PlannerIdle
    /\ MemoryIdle
    /\ ChunkerIdle
    /\ WebhookIdle
    /\ budget = [uploads |-> 0, events |-> 0]
    /\ retriever \in [pc : {"call"}, reranked : Reranked, doc_cap : PerDocCaps,
                       top_k : TopKs, out : {<<>>}]

RetrieverSpec == RetrieverInit /\ [][RetrieveCall]_vars

----
(***************************************************************************)
(* POST /webhook/minio (data_tunnel/webhooks.py).  Each delivery carries    *)
(* one record; deliveries are served by the processes of the service, and   *)
(* a step is one database statement or one broker call.  The manifests      *)
(* table has no unique constraint on path.                                  *)
(***************************************************************************)

MaxDeliveries == 3

Deliveries == 1..MaxDeliveries
ObjectPaths == {"s3://raw/tenant-a/landing/a.txt", "s3://raw/tenant-a/landing/b.txt"}

NoDelivery == [pc |-> "idle", path |-> ""]

(* _manifest_exists: SELECT ingest_id FROM manifests WHERE path = :path *)
_manifest_exists(path) == \E m \in webhook.manifests : m.path = path

WebhookReceive(d, path) ==
    /\ webhook.handlers[d].pc = "idle"
    /\ webhook' = [webhook EXCEPT !.handlers[d] = [pc |-> "check", path |-> path]]

WebhookCheck(d) ==
    /\ webhook.handlers[d].pc = "check"
    /\ webhook' = [webhook EXCEPT
                      !.handlers[d].pc = IF _manifest_exists(webhook.handlers[d].path)
                                         THEN "skipped" ELSE "insert"]

(* get_object raises: the record is reported as failed *)
WebhookFetchFails(d) ==
    /\ webhook.handlers[d].pc = "insert"
    /\ webhook' = [webhook EXCEPT !.handlers[d].pc = "failed"]

(* ingest_id = uuid4(); _insert_manifest *)
WebhookInsert(d) ==
    /\ webhook.handlers[d].pc = "insert"
    /\ webhook' = [webhook EXCEPT
                      !.manifests = @ \cup {[ingest_id |-> d, path |-> webhook.handlers[d].path]},
                      !.handlers[d].pc = "queue"]

(* _queue_parse: update_status(QUEUED) and parse_normalize.delay *)
WebhookQueue(d) ==
    /\ webhook.handlers[d].pc = "queue"
    /\ webhook' = [webhook EXCEPT !.queued = @ \cup {d},
                                  !.handlers[d].pc = "queued"]

WebhookStep ==
    /\ \/ \E d \in Deliveries, path \in ObjectPaths : WebhookReceive(d, path)
       \/ \E d \in Deliveries : WebhookCheck(d)
       \/ \E d \in Deliveries : WebhookFetchFails(d)
       \/ \E d \in Deliveries : WebhookInsert(d)
       \/ \E d \in Deliveries : WebhookQueue(d)
    /\ UNCHANGED <<ivars, qvars, planner, _turns, _turn_counters, appended, window, mem_env,
                   lvars, retriever, chunker>>

WebhookInit ==
    /\ EmptyStores
    /\ QueryIdle
    /\ PlannerIdle
    /\ MemoryIdle
    /\ RetrieverIdle
    /\ ChunkerIdle
    /\ budget = [uploads |-> 0, events |-> 0]
    /\ webhook = [manifests |-> {}, queued |-> {},
                  handlers |-> [d \in Deliveries |-> NoDelivery]]

WebhookSpec == WebhookInit /\ [][WebhookStep]_vars

(***************************************************************************)
(* pipeline/chunk.py: semantic_chunks and the loop of _word_chunks.  A     *)
(* text is its number of words; a chunk is the slice words[start:end].     *)
(***************************************************************************)
MaxWords == 4
MaxChunkTokens == 3
MaxOverlap == 3

(* no run that advances start emits more chunks than the text has words *)
MaxChunks == MaxWords + 2

WordCounts == 0..MaxWords
ChunkMaxTokens == 1..MaxChunkTokens
ChunkOverlaps == 0..MaxOverlap

(* start = max(0, end - overlap) *)
next_start(start, end, overlap) == Max(0, end - overlap)

(* The list is unbounded in a run that never leaves the loop: the model    *)
(* keeps its first MaxChunks chunks.                                       *)
chunks_append(out, chunk) ==
    IF Len(out) < MaxChunks THEN Append(out, chunk) ELSE out

(* while start < len(words) *)
_word_chunks_while ==
    /\ chunker.pc = "while"
    /\ chunker' = [chunker EXCEPT
                      !.pc = IF chunker.start < chunker.words THEN "body" ELSE "done"]
    /\ UNCHANGED <<ivars, qvars, planner, _turns, _turn_counters, appended, window, mem_env,
                   lvars, retriever, webhook>>

(* the body of the loop: append words[start:end], break at the end of the  *)
(* text, otherwise step back by the overlap                                *)
_word_chunks_body ==
    /\ chunker.pc = "body"
    /\ LET end == Min(chunker.start + chunker.max_tokens, chunker.words)
       IN chunker' = [chunker EXCEPT
                         !.chunks = chunks_append(@, <<chunker.start, end>>),
                         !.pc = IF end = chunker.words THEN "done" ELSE "while",
                         !.start = IF end = chunker.words THEN @
                                   ELSE next_start(@, end, chunker.overlap)]
    /\ UNCHANGED <<ivars, qvars, planner, _turns, _turn_counters, appended, window, mem_env,
                   lvars, retriever, webhook>>

_word_chunks ==
    \/ _word_chunks_while
    \/ _word_chunks_body

(* semantic_chunks(text, strategy_cfg) on entry to _word_chunks *)
semantic_chunks(words, max_tokens, overlap) ==
    [pc |-> "while", words |-> words, max_tokens |-> max_tokens, overlap |-> overlap,
     start |-> 0, chunks |-> <<>>]

ChunkerInit ==
    /\ EmptyStores
    /\ QueryIdle
    /\ PlannerIdle
    /\ MemoryIdle
    /\ RetrieverIdle
    /\ WebhookIdle
    /\ budget = [uploads |-> 0, events |-> 0]
    /\ \E words \in WordCounts, max_tokens \in ChunkMaxTokens, overlap \in ChunkOverlaps :
           chunker = semantic_chunks(words, max_tokens, overlap)

ChunkerSpec == ChunkerInit /\ [][_word_chunks]_vars

(* the loop runs in one worker thread, which keeps executing it *)
ChunkerLiveSpec == ChunkerSpec /\ WF_vars(_word_chunks)

----
(***************************************************************************)
(* Properties.                                                             *)
(***************************************************************************)

(* A step in which worker w runs part of a task whose stage already has its *)
(* completion row: the invocation itself, the stage's work, or the tail     *)
(* after mark_stage_complete saw the row.                                   *)
Reinvoked(w) ==
    \/ /\ workers[w].pc = "idle"
       /\ workers'[w].pc = "work"
       /\ stage_completed(workers'[w].msg.ingest_id, StageOf(workers'[w].msg.task))
    \/ /\ workers[w].pc = "work"
       /\ workers'[w] # workers[w]
       /\ stage_completed(WIngest(w), WStage(w))
    \/ /\ workers[w].pc = "mark"
       /\ workers'[w] # workers[w]
       /\ workers[w].seen

NothingEnqueued == \A m \in BagToSet(queue') : CopiesIn(m, queue') <= CopiesIn(m, queue)

(* C1: once an ingest's status is COMPLETED or FAILED, no later operation on *)
(* the row (stage task, redelivered task, reindex) changes that status.      *)
C1_TerminalAbsorbing ==
    [][\A i \in Ingests :
          (ingestions[i].status \in Terminal /\ ingestions'[i] # NoRow)
              => ingestions'[i].status = ingestions[i].status]_vars

C3_NoReexecution ==
    [][\A w \in Workers :
          Reinvoked(w) =>
              /\ objects' = objects
              /\ dq_reports' = dq_reports
              /\ chunks' = chunks
              /\ vectors' = vectors
              /\ ingestions' = ingestions
              /\ NothingEnqueued]_vars

(* C4: every ingest that is QUEUED or PROCESSING eventually is COMPLETED or *)
(* FAILED with a dlq_reason, unless its manifest is deleted.                *)
C4_ReachesTerminal ==
    \A i \in Ingests :
        (ingestions[i].status \in {"QUEUED", "PROCESSING"})
            ~> \/ manifests[i] = NoRow
               \/ ingestions[i].status = "COMPLETED"
               \/ ingestions[i].status = "FAILED" /\ ingestions[i].dlq_reason # ""

(* The gate has just run on what hybrid_search returned. *)
GateRan == query.pc = "retrieve" /\ query'.pc # "retrieve"

(* C5: when retrieval is required and fewer than 3 distinct doc_ids have a  *)
(* retained hit scoring at least RAG_SCORE_THRESHOLD, or retrieval raised,  *)
(* the response is INSUFFICIENT EVIDENCE with no citations and rag_failure  *)
(* NO_MATCHES, LOW_CONFIDENCE or INDEX_NOT_READY.                           *)
C5_EvidenceGate ==
    [][GateRan =>
          LET retained == DedupedHits(retrieved'.hits, query.req.fresh)
              doc_ids == {h.doc_id : h \in {u \in SeqToSet(retained) :
                                                u.score >= RAG_SCORE_THRESHOLD}} \ {""}
          IN (retrieved'.error \/ Cardinality(doc_ids) < RAG_REQUIRED_MIN_SOURCES) =>
                 /\ response'.text = INSUFFICIENT_MESSAGE
                 /\ response'.citations = 0
                 /\ response'.rag_failure =
                        IF retrieved'.error THEN "INDEX_NOT_READY"
                        ELSE IF retained = <<>> THEN "NO_MATCHES"
                        ELSE "LOW_CONFIDENCE"]_vars

C7_RedeliveryFrame ==
    [][\A w \in Workers :
          Reinvoked(w) =>
              LET i == IF Busy(w) THEN WIngest(w) ELSE workers'[w].msg.ingest_id
              IN /\ {o \in objects' : o[1][2] = i} = {o \in objects : o[1][2] = i}
                 /\ {c \in chunks' : c.doc_id = i} = {c \in chunks : c.doc_id = i}
                 /\ {v \in vectors' : v.doc_id = i} = {v \in vectors : v.doc_id = i}]_vars

(* C8: the ledger holds at most one completion row per (ingest_id, stage). *)
C8_LedgerUnique ==
    \A i \in Ingests, s \in Stages : lineage_nodes[i][s] <= 1

(* A step in which worker w runs the work of pii_dq on a text in which the   *)
(* analyzer finds entities, under fail_on_pii or a fail/reject action.       *)
PiiViolationStep(w) ==
    /\ workers[w].pc = "work"
    /\ workers[w].msg.task = "pii_dq"
    /\ workers'[w] # workers[w]
    /\ workers[w].msg.canonical.text = "raw"
    /\ workers[w].manifest.profile.pii
    /\ \/ workers[w].manifest.profile.fail_on_pii
       \/ workers[w].manifest.profile.action \in {"fail", "reject"}

PiiTaskEnds(w) ==
    /\ workers'[w] = Idle
    /\ NothingEnqueued
    /\ chunks' = chunks

PiiFailed(i) ==
    /\ ingestions'[i].status = "FAILED"
    /\ ingestions'[i].dlq_reason = "PII policy violation"

(* C9 as stated: on a PII policy violation pii_dq leaves the ingest FAILED  *)
(* with dlq_reason "PII policy violation", enqueues no later stage and      *)
(* writes no chunk row.                                                     *)
C9_PiiViolationFails ==
    [][\A w \in Workers :
          PiiViolationStep(w) => PiiFailed(WIngest(w)) /\ PiiTaskEnds(w)]_vars

(* C10: when a task sees a dependency fail (raw fetch, embedding, vector    *)
(* upsert, index write) the ingest is FAILED with that error as dlq_reason. *)
C10_DependencyFailureFails ==
    [][(log' # log /\ log'.err \in {"raw_fetch", "embed", "upsert", "index"})
          => /\ ingestions'[log'.ingest_id].status = "FAILED"
             /\ ingestions'[log'.ingest_id].dlq_reason = log'.err]_vars

(* DELETE /v1/ingest/{i} has answered 200 in this step. *)
DeleteSucceeds(i) ==
    /\ manifests[i] # NoRow
    /\ manifests'[i] = NoRow
    /\ (log' = log \/ log'.err = "index_delete")

(* C11: after a successful delete no vector, chunk, report, ledger,         *)
(* manifest or ingestions row of the ingest remains, no object under its    *)
(* prefix and no index document with its (tenant_id, doc_id).               *)
C11_DeleteCascade ==
    [][\A i \in Ingests :
          DeleteSucceeds(i) =>
              /\ \A v \in vectors' : v.doc_id # i
              /\ \A c \in chunks' : c.doc_id # i
              /\ dq_reports'[i] = 0
              /\ \A s \in Stages : lineage_nodes'[i][s] = 0
              /\ ingestions'[i] = NoRow
              /\ \A o \in objects' : ~(o[1][1] = manifests[i].tenant_id /\ o[1][2] = i)
              /\ \A d \in os_index' :
                     ~(d.tenant_id = manifests[i].tenant_id /\ d.doc_id = i)]_vars


(* C12: a query whose simulator call failed is answered without risk: the  *)
(* error is in telemetry.risk_error and meta.risk.error, risk_used is       *)
(* false, the signature is not in the risk cache, and a risk step that      *)
(* finds no entry for its signature invokes the simulator.                  *)
C12_RiskFailureGraceful ==
    [][/\ (query'.pc = "done" /\ query'.risk.error \in SimErrors) =>
            /\ response'.text \in {"draft", "low_evidence"}
            /\ response'.risk.attempted
            /\ ~response'.risk.used
            /\ response'.risk.error = query'.risk.error
            /\ response'.meta_risk_error = query'.risk.error
            /\ risk_signature(query'.req.riskSpec, DATA_VERSION) \notin risk_cache'
       /\ (/\ query.pc = "risk"
           /\ query'.pc = "compose"
           /\ query.req.riskSpec # <<>>
           /\ risk_signature(query.req.riskSpec, DATA_VERSION) \notin risk_cache) =>
            sim_calls' = sim_calls + 1]_vars

(* the second of two identical queries has invoked the simulator again after *)
(* the first one failed                                                      *)
C12_Witness ==
    /\ query.pc = "done"
    /\ Len(turns) = 2
    /\ sim_calls = 2
    /\ risk_cache = {}
    /\ response.risk.error \in SimErrors
    /\ response.meta_risk_error = response.risk.error

C14_KeywordOverride ==
    planner.pc = "done" =>
        /\ force_risk(planner.user_msg) => planner.plan.needRisk
        /\ (_looks_definitional(planner.user_msg) /\ ~force_risk(planner.user_msg)) =>
              ~planner.plan.needRisk

(* C14 as the code has it: the overrides apply to a reply that parses into  *)
(* a Plan; any other reply yields the default plan, needRisk false.         *)
C14_KeywordOverrideOnValidPlan ==
    planner.pc = "done" =>
        /\ planner.reply.kind = "plan" =>
              /\ force_risk(planner.user_msg) => planner.plan.needRisk
              /\ (_looks_definitional(planner.user_msg) /\ ~force_risk(planner.user_msg)) =>
                    ~planner.plan.needRisk
        /\ planner.reply.kind # "plan" => planner.plan = _default_plan

(* a definitional message with a simulation keyword, for which the LLM      *)
(* proposed needRisk false and the plan says true                           *)
C14_Witness ==
    /\ planner.pc = "done"
    /\ planner.reply.kind = "plan"
    /\ ~planner.reply.needRisk
    /\ force_risk(planner.user_msg)
    /\ _looks_definitional(planner.user_msg)
    /\ planner.plan.needRisk

(* C15: when a RAG pack was built and the draft has more than two factual   *)
(* claims with fewer than two citations, the answer is the low-evidence     *)
(* acknowledgment (no citations) with rag_used true; in every other case    *)
(* the draft is returned as composed.                                       *)
C15_LowEvidenceGuard ==
    [][\A draft \in Drafts :
          Compose(draft) =>
              IF query.pack # <<>> /\ draft.claims > 2 /\ draft.citations < 2
              THEN /\ response'.text = "low_evidence"
                   /\ response'.citations = 0
                   /\ response'.rag_used
              ELSE /\ response'.text = "draft"
                   /\ response'.citations = draft.citations
                   /\ response'.rag_used = (query.pack # <<>>)]_vars

(* an answer that is the acknowledgment variant, with documents used *)
C15_Witness ==
    /\ query.pc = "done"
    /\ query.pack # <<>>
    /\ response.text = "low_evidence"
    /\ response.citations = 0
    /\ response.rag_used

(* C16: a synthesized response has route RAG_RISK when a RAG pack and a     *)
(* simulation result were used, RAG with the pack only, RISK with the       *)
(* result only, LLM_ONLY otherwise; a query without documents whose risk    *)
(* helper failed or had no riskSpec has route LLM_ONLY.                     *)
C16_RouteLabel ==
    (query.pc = "done" /\ response.text \in {"draft", "low_evidence"}) =>
        /\ response.route = "RAG_RISK" <=> (query.pack # <<>> /\ response.risk.used)
        /\ response.route = "RAG" <=> (query.pack # <<>> /\ ~response.risk.used)
        /\ response.route = "RISK" <=> (query.pack = <<>> /\ response.risk.used)
        /\ response.route = "LLM_ONLY" <=> (query.pack = <<>> /\ ~response.risk.used)
        /\ (query.pack = <<>> /\ response.risk.error # "") => response.route = "LLM_ONLY"

(* a query without documents whose risk helper failed, answered LLM_ONLY   *)
C16_Witness ==
    /\ query.pc = "done"
    /\ query.pack = <<>>
    /\ query.req.needRisk
    /\ response.risk.error \in SimErrors \cup {"risk_spec_missing"}
    /\ response.route = "LLM_ONLY"

(* C17: in every state of the ingestions table, finished_at is set exactly  *)
(* when the status is COMPLETED or FAILED, also after a reindex of a        *)
(* finished ingest.                                                         *)
C17_FinishedIffTerminal ==
    \A i \in Ingests :
        ingestions[i] # NoRow =>
            (ingestions[i].finished_at <=> ingestions[i].status \in Terminal)

(* C18: in every state, across ingest, reindex and delete, each vector row  *)
(* has exactly one chunk row with its chunk_id and its tenant_id.           *)
C18_VectorHasChunk ==
    \A v \in vectors :
        Cardinality({c \in chunks : c.chunk_id = v.chunk_id}) = 1
        /\ \A c \in chunks : c.chunk_id = v.chunk_id => c.tenant_id = v.tenant_id

(* a vector row written again by a reindex run, next to its chunk row *)
C18_Witness ==
    \E v \in vectors :
        /\ v.ingested_at > 1
        /\ \E c \in chunks : c.chunk_id = v.chunk_id /\ c.tenant_id = v.tenant_id

(* C19: for every thread and every sequence of n append_turn calls, the     *)
(* stored turns are the most recent min(n, 40) appended turns in insertion  *)
(* order: never more than 40, the oldest evicted first.                     *)
C19_DequeKeepsNewest ==
    \A t \in Threads :
        LET n == Len(appended[t])
            kept == Min(n, 40)
        IN /\ Len(_turns[t]) = kept
           /\ _turns[t] = SubSeq(appended[t], n - kept + 1, n)

(* a thread that has evicted its oldest turn *)
C19_Witness ==
    \E t \in Threads :
        /\ Len(appended[t]) > 40
        /\ Len(_turns[t]) = 40
        /\ _turns[t][1].seq = Len(appended[t]) - 39

RECURSIVE BlockTokens(_)
BlockTokens(blocks) ==
    IF blocks = <<>> THEN 0
    ELSE approx_token_len(Head(blocks).user) + approx_token_len(Head(blocks).assistant)
            + BlockTokens(Tail(blocks))

(* C20: get_recent_window returns the empty string when token_cap is 0 (or  *)
(* below) or the thread has no turns; otherwise it returns at least one     *)
(* block, the blocks are the newest turns, contiguous and in chronological  *)
(* order, and their tokens total at most token_cap unless there is one      *)
(* block only.                                                              *)
C20_RecentWindow ==
    [][\A t \in Threads, token_cap \in TokenCaps :
          (/\ window'.thread_id = t
           /\ window'.token_cap = token_cap
           /\ GetWindow(t, token_cap)) =>
              LET ts == _turns[t]
                  w == window'.blocks
              IN IF token_cap <= 0 \/ ts = <<>>
                 THEN w = <<>>
                 ELSE /\ Len(w) >= 1
                      /\ Len(w) <= Len(ts)
                      /\ \A k \in 1..Len(w) : w[k] = Block(ts[Len(ts) - Len(w) + k])
                      /\ Len(w) > 1 => BlockTokens(w) <= token_cap]_vars

(* a window of two blocks or more that the cap cut short of the thread's    *)
(* turns, and whose blocks differ                                           *)
C20_Witness ==
    /\ window.called
    /\ Len(window.blocks) >= 2
    /\ Len(window.blocks) < Len(_turns[window.thread_id])
    /\ window.blocks[1] # window.blocks[2]
    /\ window.blocks = get_recent_window(_turns[window.thread_id], window.token_cap)

AppendersOf(t) == {c \in Callers : callers[c].op = "append_turn" /\ callers[c].thread_id = t}

(* C21: operations on one thread_id are serialized by one lock, reads       *)
(* included: no two callers are inside an operation on the same thread at   *)
(* once, after n concurrent append_turn calls the counter is n and the n    *)
(* turns are stored, and a reader sees as many turns as the counter says.   *)
C21_MemorySerialized ==
    /\ \A c1, c2 \in Callers :
          ~(/\ c1 # c2
            /\ callers[c1].thread_id = callers[c2].thread_id
            /\ callers[c1].pc \in {"append", "counter_get", "counter_set", "read_counter"}
            /\ callers[c2].pc \in {"append", "counter_get", "counter_set", "read_counter"})
    /\ (\A c \in Callers : callers[c].pc = "done") =>
          \A t \in Threads :
              /\ _turn_counters[t] = Cardinality(AppendersOf(t))
              /\ Len(_turns[t]) = Cardinality(AppendersOf(t))
    /\ \A c \in Callers :
          (/\ callers[c].op = "maybe_update_long_summary"
           /\ callers[c].pc = "done"
           /\ callers[c].seen_len > 0) => callers[c].seen_len = callers[c].seen

C23_WebhookDedupe ==
    \A path \in ObjectPaths :
        /\ Cardinality({m \in webhook.manifests : m.path = path}) <= 1
        /\ Cardinality({m \in webhook.manifests :
                           m.path = path /\ m.ingest_id \in webhook.queued}) <= 1

(* C24: a DELETE that is rejected, with 404 because the ingest has no       *)
(* manifest or with 400 because the tenant_id given differs from the        *)
(* manifest's, removes no row, no object and no index document.             *)
C24_RejectedDeleteKeepsAll ==
    [][\A i \in Ingests, t \in RequestTenants :
          (/\ \/ manifests[i] = NoRow
              \/ (t # "none" /\ t # manifests[i].tenant_id)
           /\ DeleteIngest(i, t, "none")) =>
              UNCHANGED <<manifests, ingestions, lineage_nodes, chunks, vectors,
                          dq_reports, objects, os_index>>]_vars

(* a delete with another tenant's id was answered 400 while the ingest has  *)
(* its rows, its objects and its index document                             *)
C24_Witness ==
    /\ log.stage = "delete"
    /\ log.err = "http_400"
    /\ manifests[log.ingest_id] # NoRow
    /\ \E v \in vectors : v.doc_id = log.ingest_id
    /\ \E d \in os_index : d.doc_id = log.ingest_id
    /\ \E o \in objects : o[1][2] = log.ingest_id

(* C25: a follow-up query for which the planner returns needRag false is    *)
(* answered without retrieval: after a first query and such a follow-up,    *)
(* hybrid_search has been called for the first query at most.               *)
C25_FollowUpSkipsRetrieval ==
    (query.pc = "done" /\ Len(turns) = 2 /\ ~query.req.needRag) =>
        /\ ~retrieved.called
        /\ rag_calls <= 1

(* C26: whenever an ingest's status is COMPLETED, the ledger holds a         *)
(* completion row for each of its five stages.                              *)
C26_CompletedHasLedger ==
    \A i \in Ingests :
        (ingestions[i] # NoRow /\ ingestions[i].status = "COMPLETED") =>
            \A s \in Stages : stage_completed(i, s)

(* C27: when the evidence gate fails or retrieval raises, handle_query      *)
(* returns at once: the simulator is not invoked and no synthesis step      *)
(* follows, even when plan.needRisk is true, and exactly one turn, carrying *)
(* INSUFFICIENT EVIDENCE, is appended to the thread's memory.               *)
C27_GateFailureReturns ==
    [][(query.pc = "retrieve" /\ rag_failure(retrieved', query.req.fresh) # "") =>
           /\ query'.pc = "done"
           /\ sim_calls' = sim_calls
           /\ simulated' = simulated
           /\ risk_cache' = risk_cache
           /\ turns' = Append(turns, INSUFFICIENT_MESSAGE)
           /\ response'.text = INSUFFICIENT_MESSAGE
           /\ response'.risk = NoRisk]_vars

(* a plan with needRisk and a riskSpec whose retrieval failed the gate *)
C27_Witness ==
    /\ query.pc = "done"
    /\ query.req.needRisk
    /\ query.req.riskSpec # <<>>
    /\ retrieved.called
    /\ rag_failure(retrieved, query.req.fresh) = "LOW_CONFIDENCE"
    /\ response.text = INSUFFICIENT_MESSAGE
    /\ sim_calls = 0
    /\ Len(turns) = 1

(* the hits of a pack that score at least RAG_SCORE_THRESHOLD *)
PackDocIds(pack) ==
    {h.doc_id : h \in {u \in SeqToSet(pack) : u.score >= RAG_SCORE_THRESHOLD}} \ {""}

(* C28: a RAG pack handed to the synthesizer holds at most                  *)
(* max_context_chunks hits, and they come from at least three distinct      *)
(* doc_ids that each score at least RAG_SCORE_THRESHOLD, also when the      *)
(* freshness bias reorders the hits or several hits share a doc_id.         *)
C28_PackIsGrounded ==
    (query.pc = "compose" /\ query.pack # <<>>) =>
        /\ Len(query.pack) <= max_context_chunks
        /\ Cardinality(PackDocIds(query.pack)) >= RAG_REQUIRED_MIN_SOURCES

(* the manifest of i was deleted and no task of i is queued or running *)
DeletedAndQuiet(i) ==
    /\ i \in created
    /\ manifests[i] = NoRow
    /\ \A m \in BagToSet(queue) : m.ingest_id # i
    /\ \A w \in Workers : workers[w].pc # "idle" => WIngest(w) # i

(* C29: if DELETE runs while a stage task of the ingest is queued or in     *)
(* flight, then once the delete and all of the ingest's tasks have          *)
(* finished, no ingestions row, chunk row or vector row of it exists.       *)
C29_DeleteOutlivesTasks ==
    \A i \in Ingests :
        DeletedAndQuiet(i) =>
            /\ ingestions[i] = NoRow
            /\ \A c \in chunks : c.doc_id # i
            /\ \A v \in vectors : v.doc_id # i

(* C30: semantic_chunks terminates with a finite list for every text and    *)
(* every strategy with max_tokens >= 1 and overlap_tokens >= 0, also when   *)
(* overlap_tokens >= max_tokens.                                            *)
C30_ChunkingTerminates ==
    (chunker.pc = "while") ~> (chunker.pc = "done")

====
